---- MODULE Spec2Model ----
(***************************************************************************)
(* A model of the paletter colour quantizer: the Rgb24 colour primitive    *)
(* (src/src/color.rs), the median-cut engine (src/src/median_cut.rs), the  *)
(* octree engine (src/src/octree.rs) and the solve dispatcher              *)
(* (src/src/lib.rs).                                                       *)
(*                                                                         *)
(* A colour is a tuple <<r, g, b>> of u8 values; channel number n of the   *)
(* source (0, 1, 2) is position n + 1 of the tuple.  Slices and vectors    *)
(* are sequences; an offset or handle keeps the source's 0-based value and *)
(* is turned into a sequence position by adding 1.                         *)
(***************************************************************************)
EXTENDS Integers, Sequences, FiniteSets, TLC

\* Longest input colour sequence and largest palette size explored.
MaxLen == 3
MaxK == 4
MaxFiles == 3

\* u8::MAX and u8::MIN (color.rs:72-73).
U8_MAX == 255
U8_MIN == 0

\* The colours inputs are drawn from.  (0,0,0), (0,0,1) and (1,1,0) differ
\* in their lowest bits only (three leaves of one level-6 octree branch), and
\* (0,0,0), (1,1,0) tie the red range with the green one above the blue one;
\* (2,3,1) leaves them at level 6; (128,1,2) and (3,130,3) fall under two
\* other children of the octree root.  (0,0,0), (2,3,1), (128,1,2) and
\* (3,130,3) differ pairwise in every channel.
Palette ==
    { <<0, 0, 0>>, <<0, 0, 1>>, <<1, 1, 0>>, <<2, 3, 1>>, <<128, 1, 2>>, <<3, 130, 3>> }

Channels == {"Red", "Green", "Blue"}

RECURSIVE SeqsUpTo(_, _)
SeqsUpTo(S, n) ==
    IF n = 0 THEN { <<>> }
    ELSE LET shorter == SeqsUpTo(S, n - 1)
         IN  shorter \cup { Append(s, x) : s \in { t \in shorter : Len(t) = n - 1 }, x \in S }

\* Every input colour sequence of 0..MaxLen colours.
Inputs == SeqsUpTo(Palette, MaxLen)

\* A longer input: three colours under one branch of level 6 and a fourth
\* under its sibling, the least tree in which a branch is collapsed after a
\* child of it was skipped.
Nested == { << <<0, 0, 0>>, <<0, 0, 1>>, <<1, 1, 0>>, <<2, 3, 1>> >> }

---------------------------------------------------------------------------
(* color.rs *)

\* RGBChannel::to_usize
ToUsize(channel) ==
    CASE channel = "Red" -> 0
      [] channel = "Green" -> 1
      [] channel = "Blue" -> 2

\* Rgb24::new and the accessors r(), g(), b(), Index<usize>
Rgb24(r, g, b) == <<r, g, b>>
ChR(c) == c[1]
ChG(c) == c[2]
ChB(c) == c[3]
ChannelAt(c, n) == c[n + 1]

U8Min(a, b) == IF a <= b THEN a ELSE b
U8Max(a, b) == IF a >= b THEN a ELSE b

\* Rgb24::min, Rgb24::max: channel-wise
ColorMin(left, right) ==
    Rgb24(U8Min(ChR(left), ChR(right)), U8Min(ChG(left), ChG(right)), U8Min(ChB(left), ChB(right)))
ColorMax(left, right) ==
    Rgb24(U8Max(ChR(left), ChR(right)), U8Max(ChG(left), ChG(right)), U8Max(ChB(left), ChB(right)))

\* The fold of max_channel_delta: (min, max) over the slice, from (high, low).
RECURSIVE FoldMinMax(_, _, _)
FoldMinMax(colors, min, max) ==
    IF colors = <<>> THEN [min |-> min, max |-> max]
    ELSE FoldMinMax(Tail(colors), ColorMin(min, Head(colors)), ColorMax(max, Head(colors)))

SliceMinMax(colors) ==
    FoldMinMax(colors, Rgb24(U8_MAX, U8_MAX, U8_MAX), Rgb24(U8_MIN, U8_MIN, U8_MIN))

\* u8 subtraction as a build without overflow checks computes it.
U8WrappingSub(a, b) == (a - b) % (U8_MAX + 1)

\* max.c() - min.c() overflows u8 for some channel (only on an empty slice):
\* a build with overflow checks panics there.
DeltaOverflows(colors) ==
    LET mm == SliceMinMax(colors)
    IN  \E n \in 1..3 : mm.max[n] < mm.min[n]

\* Rgb24::max_channel_delta
MaxChannelDelta(colors) ==
    LET mm == SliceMinMax(colors)
        delta == Rgb24(U8WrappingSub(ChR(mm.max), ChR(mm.min)),
                       U8WrappingSub(ChG(mm.max), ChG(mm.min)),
                       U8WrappingSub(ChB(mm.max), ChB(mm.min)))
    IN  IF ChR(delta) > ChG(delta) /\ ChR(delta) > ChB(delta)
          THEN [channel |-> "Red", delta |-> ChR(delta)]
        ELSE IF ChG(delta) > ChR(delta) /\ ChG(delta) > ChB(delta)
          THEN [channel |-> "Green", delta |-> ChG(delta)]
        ELSE [channel |-> "Blue", delta |-> ChB(delta)]

\* The fold of average: channel sums.
RECURSIVE FoldSum(_, _)
FoldSum(colors, sum) ==
    IF colors = <<>> THEN sum
    ELSE FoldSum(Tail(colors),
                 <<sum[1] + ChR(Head(colors)), sum[2] + ChG(Head(colors)), sum[3] + ChB(Head(colors))>>)

\* A variant of RoundDiv that rounds every quotient up past the next integer
\* (floor + 1, also for exact quotients): C11 must tell it from the code.
RoundDivPastCeiling(sum, len) ==
    IF len = 0 THEN 0 ELSE (sum \div len) + 1

\* f32::round(sum as f32 / len as f32) as u8: round half away from zero;
\* 0/0 is NaN, which the cast turns into 0.  Exact for the sums and lengths
\* of the model (all far below 2^24).
RoundDiv(sum, len) ==
    IF len = 0 THEN 0 ELSE (2 * sum + len) \div (2 * len)

\* Rgb24::average
Average(colors) ==
    LET sum == FoldSum(colors, <<0, 0, 0>>)
        len == Len(colors)
    IN  Rgb24(RoundDiv(sum[1], len), RoundDiv(sum[2], len), RoundDiv(sum[3], len))

\* A variant of Distribute that puts each colour at the front of its bucket
\* (an unstable sort): C10 must tell it from the code.
RECURSIVE DistributeFront(_, _, _)
DistributeFront(colors, channel, buckets) ==
    IF colors = <<>> THEN buckets
    ELSE DistributeFront(Tail(colors), channel,
                    [buckets EXCEPT ![ChannelAt(Head(colors), channel)] = <<Head(colors)>> \o @])

\* radix_sort, first pass: push each colour onto the bucket of its channel value.
RECURSIVE Distribute(_, _, _)
Distribute(colors, channel, buckets) ==
    IF colors = <<>> THEN buckets
    ELSE Distribute(Tail(colors), channel,
                    [buckets EXCEPT ![ChannelAt(Head(colors), channel)] = Append(@, Head(colors))])

\* radix_sort, second pass: buckets.into_iter().flatten(), the buckets lo..hi
\* concatenated in index order (by halves, to keep the evaluation shallow).
RECURSIVE Flatten(_, _, _)
Flatten(buckets, lo, hi) ==
    IF lo = hi THEN buckets[lo]
    ELSE LET half == (lo + hi) \div 2
         IN  Flatten(buckets, lo, half) \o Flatten(buckets, half + 1, hi)

\* A variant of RadixSort that never writes the buckets back to the slice:
\* C5 must tell it from the code.
RadixSortNoWriteBack(colors, channel) == colors

\* Rgb24::radix_sort: the slice's contents after the call.
RadixSort(colors, channel) ==
    LET ch == ToUsize(channel)
        buckets == Distribute(colors, ch, [i \in 0..U8_MAX |-> <<>>])
    IN  Flatten(buckets, U8_MIN, U8_MAX)

\* 2^n for the shifts of level_index
RECURSIVE Pow2(_)
Pow2(n) == IF n = 0 THEN 1 ELSE 2 * Pow2(n - 1)

\* (v & mask) >> inv for the one-bit mask 0b10000000 >> level
MaskedBit(v, level) ==
    LET inv == 7 - level
        mask == 128 \div Pow2(level)
        masked == ((v \div mask) % 2) * mask
    IN  masked \div Pow2(inv)

\* Rgb24::level_index
LevelIndex(c, level) ==
    MaskedBit(ChR(c), level) * 4 + MaskedBit(ChG(c), level) * 2 + MaskedBit(ChB(c), level)

---------------------------------------------------------------------------
(* median_cut.rs *)

\* &colors[start..end]
Slice(colors, start, end) == SubSeq(colors, start + 1, end)

\* Bucket::new
Bucket(offset, channel, delta) == [offset |-> offset, channel |-> channel, delta |-> delta]

\* buckets.iter().enumerate().max_by(|x, y| x.delta.cmp(&y.delta)): the fold
\* keeps the held entry only when it compares Greater, so of several maximal
\* entries the last one is returned.  Positions are 1-based.
RECURSIVE MaxByDeltaFrom(_, _, _)
MaxByDeltaFrom(buckets, i, best) ==
    IF i > Len(buckets) THEN best
    ELSE MaxByDeltaFrom(buckets, i + 1, IF buckets[best].delta > buckets[i].delta THEN best ELSE i)

MaxByDelta(buckets) == MaxByDeltaFrom(buckets, 2, 1)

\* The buckets median_cut starts from: the whole slice and the sentinel.
InitialBuckets(colors) ==
    LET cd == MaxChannelDelta(colors)
    IN  << Bucket(0, cd.channel, cd.delta), Bucket(Len(colors), cd.channel, 0) >>

\* A variant of MedianCutIteration that cuts at the start of the range
\* (mid = start), so its first half is empty: C16 must tell it from the code.
MedianCutIterationCutAtStart(colors, buckets) ==
    LET i == MaxByDelta(buckets)
    IN  IF i + 1 > Len(buckets)
          THEN [panic |-> TRUE, overflow |-> FALSE, i |-> i, colors |-> colors, buckets |-> buckets]
        ELSE
          LET start == buckets[i].offset
              end == buckets[i + 1].offset
              mid == start
              sorted == RadixSort(Slice(colors, start, end), buckets[i].channel)
              colors2 == Slice(colors, 0, start) \o sorted \o Slice(colors, end, Len(colors))
              half0 == Slice(colors2, start, mid)
              half1 == Slice(colors2, mid, end)
              cd0 == MaxChannelDelta(half0)
              cd1 == MaxChannelDelta(half1)
              buckets2 == SubSeq(buckets, 1, i - 1)
                            \o << Bucket(start, cd0.channel, cd0.delta),
                                  Bucket(mid, cd1.channel, cd1.delta) >>
                            \o SubSeq(buckets, i + 1, Len(buckets))
          IN  [panic |-> FALSE,
               overflow |-> DeltaOverflows(half0) \/ DeltaOverflows(half1),
               i |-> i, colors |-> colors2, buckets |-> buckets2]

\* One iteration of the while loop of median_cut.
\*   panic:    buckets[i + 1] is out of bounds (the sentinel was selected)
\*   overflow: max_channel_delta was called on an empty half
MedianCutIteration(colors, buckets) ==
    LET i == MaxByDelta(buckets)
    IN  IF i + 1 > Len(buckets)
          THEN [panic |-> TRUE, overflow |-> FALSE, i |-> i, colors |-> colors, buckets |-> buckets]
        ELSE
          LET start == buckets[i].offset
              end == buckets[i + 1].offset
              mid == (start + end) \div 2
              sorted == RadixSort(Slice(colors, start, end), buckets[i].channel)
              colors2 == Slice(colors, 0, start) \o sorted \o Slice(colors, end, Len(colors))
              half0 == Slice(colors2, start, mid)
              half1 == Slice(colors2, mid, end)
              cd0 == MaxChannelDelta(half0)
              cd1 == MaxChannelDelta(half1)
              buckets2 == SubSeq(buckets, 1, i - 1)
                            \o << Bucket(start, cd0.channel, cd0.delta),
                                  Bucket(mid, cd1.channel, cd1.delta) >>
                            \o SubSeq(buckets, i + 1, Len(buckets))
          IN  [panic |-> FALSE,
               overflow |-> DeltaOverflows(half0) \/ DeltaOverflows(half1),
               i |-> i, colors |-> colors2, buckets |-> buckets2]

\* A variant of MedianCutEmission that zips the buckets with themselves
\* (no skip(1)): one empty range per bucket, the sentinel included.  C1 must
\* tell it from the code.
MedianCutEmissionNoSkip(colors, buckets) ==
    [j \in 1..Len(buckets) |->
        Average(Slice(colors, buckets[j].offset, buckets[j].offset))]

\* The palette median_cut returns: the average of every bucket's range.
MedianCutEmission(colors, buckets) ==
    [j \in 1..(Len(buckets) - 1) |->
        Average(Slice(colors, buckets[j].offset, buckets[j + 1].offset))]

---------------------------------------------------------------------------
(* octree.rs *)

\* Octant::MAX_SIZE, Octree::MIN_LEVEL, Octree::MAX_LEVEL, Octree::ROOT
MAX_SIZE == 8
MIN_LEVEL == 0
MAX_LEVEL == 8
ROOT == 0

\* Octree::EMPTY is usize::MAX; the model takes the largest integer TLC
\* represents, which no handle of an arena of the model's size equals.
EMPTY == 2147483647

\* An octant is a record; `branch` is the variant tag.  A leaf's `children`
\* and a branch's sums are never read.
NoChildren == [i \in 1..MAX_SIZE |-> EMPTY]

\* Octant::new_branch
NewBranch == [branch |-> TRUE, children |-> NoChildren, count |-> 0, r |-> 0, g |-> 0, b |-> 0]

\* Octant::new_leaf
NewLeaf(count, r, g, b) ==
    [branch |-> FALSE, children |-> NoChildren, count |-> count, r |-> r, g |-> g, b |-> b]

\* impl From<&Rgb24> for Octant
OctantFrom(color) == NewLeaf(1, ChR(color), ChG(color), ChB(color))

\* Octant::child (unwrapped by its callers, which hold a branch)
Child(octant, index) == octant.children[index + 1]

\* Octant::child_exists
ChildExists(octant, index) ==
    IF octant.branch THEN octant.children[index + 1] # EMPTY ELSE FALSE

\* Octant::set_child
SetChild(octant, index, handle) ==
    IF octant.branch THEN [octant EXCEPT !.children[index + 1] = handle] ELSE octant

\* Octant::child_count
ChildCount(octant) ==
    IF octant.branch
      THEN Cardinality({ i \in 1..MAX_SIZE : octant.children[i] # EMPTY })
      ELSE 0

\* Octant::add_color
OctantAddColor(octant, color) ==
    IF octant.branch THEN octant
    ELSE [octant EXCEPT !.count = @ + 1,
                        !.r = @ + ChR(color), !.g = @ + ChG(color), !.b = @ + ChB(color)]

\* Octant::make_rgb24: an Option, as a sequence of no or one colour
MakeRgb24(octant) ==
    IF octant.branch THEN <<>>
    ELSE IF octant.count > 0
      THEN << Rgb24(octant.r \div octant.count, octant.g \div octant.count, octant.b \div octant.count) >>
    ELSE <<>>

\* Octree::new: the arena holds the root branch, every level list is empty.
\* A tree is [octants, levels]; handle h is octants[h + 1], level l is levels[l + 1].
NewOctree == [octants |-> << NewBranch >>, levels |-> [l \in 1..MAX_LEVEL |-> <<>>]]

Octant(tree, handle) == tree.octants[handle + 1]

\* Octree::make_handle
MakeHandle(tree) == Len(tree.octants)

\* Octree::add_branch
AddBranch(tree, handle, index, level) ==
    LET branch_handle == MakeHandle(tree)
        pushed == Append(tree.octants, NewBranch)
    IN  [octants |-> [pushed EXCEPT ![handle + 1] = SetChild(@, index, branch_handle)],
         levels |-> [tree.levels EXCEPT ![level + 1] = Append(@, branch_handle)]]

\* A variant of AddLeaf that pushes the leaf without installing it in its
\* parent's child slot: C18 must tell it from the code.
AddLeafDetached(tree, handle, index, level, color) ==
    LET leaf_handle == MakeHandle(tree)
    IN  [octants |-> Append(tree.octants, OctantFrom(color)),
         levels |-> [tree.levels EXCEPT ![level + 1] = Append(@, leaf_handle)]]

\* Octree::add_leaf
AddLeaf(tree, handle, index, level, color) ==
    LET leaf_handle == MakeHandle(tree)
        pushed == Append(tree.octants, OctantFrom(color))
    IN  [octants |-> [pushed EXCEPT ![handle + 1] = SetChild(@, index, leaf_handle)],
         levels |-> [tree.levels EXCEPT ![level + 1] = Append(@, leaf_handle)]]

\* The for loop of add_color over the levels MIN_LEVEL..MAX_LEVEL - 1: the
\* tree and the handle reached at level MAX_LEVEL - 1.
RECURSIVE Descend(_, _, _, _)
Descend(tree, color, handle, level) ==
    IF level >= MAX_LEVEL - 1 THEN [tree |-> tree, handle |-> handle]
    ELSE LET index == LevelIndex(color, level)
             grown == IF ~ChildExists(Octant(tree, handle), index)
                        THEN AddBranch(tree, handle, index, level)
                        ELSE tree
         IN  Descend(grown, color, Child(Octant(grown, handle), index), level + 1)

\* Octree::add_color
AddColor(tree, color) ==
    LET at == Descend(tree, color, ROOT, MIN_LEVEL)
        index == LevelIndex(color, MAX_LEVEL - 1)
    IN  IF ~ChildExists(Octant(at.tree, at.handle), index)
          THEN AddLeaf(at.tree, at.handle, index, MAX_LEVEL - 1, color)
          ELSE LET child_handle == Child(Octant(at.tree, at.handle), index)
               IN  [at.tree EXCEPT !.octants[child_handle + 1] = OctantAddColor(@, color)]

\* A variant of FoldChildren that adds the red sum into the green one too:
\* C6 must tell it from the code.
RECURSIVE FoldChildrenRedTwice(_, _, _, _)
FoldChildrenRedTwice(octants, children, i, acc) ==
    IF i > MAX_SIZE THEN acc
    ELSE LET h == children[i]
             next == IF h # EMPTY /\ ~octants[h + 1].branch
                       THEN << acc[1] + octants[h + 1].count, acc[2] + octants[h + 1].r,
                               acc[3] + octants[h + 1].r, acc[4] + octants[h + 1].b >>
                       ELSE acc
         IN  FoldChildrenRedTwice(octants, children, i + 1, next)

\* Octree::branch_to_leaf: the sums of the branch's leaf children
RECURSIVE FoldChildren(_, _, _, _)
FoldChildren(octants, children, i, acc) ==
    IF i > MAX_SIZE THEN acc
    ELSE LET h == children[i]
             next == IF h # EMPTY /\ ~octants[h + 1].branch
                       THEN << acc[1] + octants[h + 1].count, acc[2] + octants[h + 1].r,
                               acc[3] + octants[h + 1].g, acc[4] + octants[h + 1].b >>
                       ELSE acc
         IN  FoldChildren(octants, children, i + 1, next)

BranchToLeaf(octants, branch) ==
    LET acc == FoldChildren(octants, branch.children, 1, <<0, 0, 0, 0>>)
    IN  NewLeaf(acc[1], acc[2], acc[3], acc[4])

\* self.levels.iter().rev().skip(1).flatten(): the handles of levels 6, 5, ..., 0
RECURSIVE LevelsBelow(_, _)
LevelsBelow(levels, level) ==
    IF level < MIN_LEVEL THEN <<>> ELSE levels[level + 1] \o LevelsBelow(levels, level - 1)

\* A variant of ReductionOrder with skip(2): the branches of level 6 are
\* never visited.  C7 must tell it from the code.
ReductionOrderSkipTwo(levels) == LevelsBelow(levels, MAX_LEVEL - 3)

ReductionOrder(levels) == LevelsBelow(levels, MAX_LEVEL - 2)

\* "Clear child octants": every non-EMPTY child, from slot i on, becomes a zero leaf.
RECURSIVE ClearChildrenFrom(_, _, _)
ClearChildrenFrom(octants, children, i) ==
    IF i > MAX_SIZE THEN octants
    ELSE ClearChildrenFrom(IF children[i] # EMPTY
                             THEN [octants EXCEPT ![children[i] + 1] = NewLeaf(0, 0, 0, 0)]
                             ELSE octants,
                           children, i + 1)

ClearChildren(octants, children) == ClearChildrenFrom(octants, children, 1)

\* A variant of ReduceVisit whose size test is off by one (it skips only when
\* leaf_count - count + 2 < size, so it collapses one branch too many):
\* C4 and C8 must tell it from the code.
ReduceVisitUndershoot(octants, handle, leaf_count, size) ==
    LET octant == octants[handle + 1]
        count == ChildCount(octant)
        reduced == leaf_count - count + 1
        underflow == leaf_count >= 0 /\ leaf_count < count
    IN  IF reduced + 1 >= 0 /\ reduced + 1 < size
          THEN [kind |-> "skip", underflow |-> underflow, octants |-> octants, leaf_count |-> leaf_count]
        ELSE IF ~octant.branch
          THEN [kind |-> "unreachable", underflow |-> underflow, octants |-> octants, leaf_count |-> leaf_count]
        ELSE IF count = 0
          THEN [kind |-> "break", underflow |-> underflow, octants |-> octants, leaf_count |-> leaf_count]
        ELSE [kind |-> "collapse", underflow |-> underflow,
              octants |-> [ClearChildren(octants, octant.children)
                             EXCEPT ![handle + 1] = BranchToLeaf(octants, octant)],
              leaf_count |-> reduced]

\* A variant of ReduceVisit whose bookkeeping leaves out the new leaf
\* (leaf_count = leaf_count - count): C19 must tell it from the code.
ReduceVisitNoNewLeaf(octants, handle, leaf_count, size) ==
    LET octant == octants[handle + 1]
        count == ChildCount(octant)
        reduced == leaf_count - count + 1
        underflow == leaf_count >= 0 /\ leaf_count < count
    IN  IF reduced >= 0 /\ reduced < size
          THEN [kind |-> "skip", underflow |-> underflow, octants |-> octants, leaf_count |-> leaf_count]
        ELSE IF ~octant.branch
          THEN [kind |-> "unreachable", underflow |-> underflow, octants |-> octants, leaf_count |-> leaf_count]
        ELSE IF count = 0
          THEN [kind |-> "break", underflow |-> underflow, octants |-> octants, leaf_count |-> leaf_count]
        ELSE [kind |-> "collapse", underflow |-> underflow,
              octants |-> [ClearChildren(octants, octant.children)
                             EXCEPT ![handle + 1] = BranchToLeaf(octants, octant)],
              leaf_count |-> reduced - 1]

\* A variant of ReduceVisit that leaves the loop at the first branch whose
\* collapse would undershoot (break in place of continue): C13 must tell it
\* from the code.
ReduceVisitStopsAtUndershoot(octants, handle, leaf_count, size) ==
    LET octant == octants[handle + 1]
        count == ChildCount(octant)
        reduced == leaf_count - count + 1
        underflow == leaf_count >= 0 /\ leaf_count < count
    IN  IF reduced >= 0 /\ reduced < size
          THEN [kind |-> "break", underflow |-> underflow, octants |-> octants, leaf_count |-> leaf_count]
        ELSE IF ~octant.branch
          THEN [kind |-> "unreachable", underflow |-> underflow, octants |-> octants, leaf_count |-> leaf_count]
        ELSE IF count = 0
          THEN [kind |-> "break", underflow |-> underflow, octants |-> octants, leaf_count |-> leaf_count]
        ELSE [kind |-> "collapse", underflow |-> underflow,
              octants |-> [ClearChildren(octants, octant.children)
                             EXCEPT ![handle + 1] = BranchToLeaf(octants, octant)],
              leaf_count |-> reduced]

\* The body of the for loop of into_palette for one handle.  leaf_count is a
\* usize: the model holds the value a build without overflow checks computes
\* as its representative in -2^63 .. 2^63 - 1, so a negative number stands
\* for a wrapped (huge) count, which is not below any size.
\*   kind: "skip" (continue), "collapse", "break", "unreachable"
\*   underflow: leaf_count - count overflows; a build with overflow checks panics
ReduceVisit(octants, handle, leaf_count, size) ==
    LET octant == octants[handle + 1]
        count == ChildCount(octant)
        reduced == leaf_count - count + 1
        underflow == leaf_count >= 0 /\ leaf_count < count
    IN  IF reduced >= 0 /\ reduced < size
          THEN [kind |-> "skip", underflow |-> underflow, octants |-> octants, leaf_count |-> leaf_count]
        ELSE IF ~octant.branch
          THEN [kind |-> "unreachable", underflow |-> underflow, octants |-> octants, leaf_count |-> leaf_count]
        ELSE IF count = 0
          THEN [kind |-> "break", underflow |-> underflow, octants |-> octants, leaf_count |-> leaf_count]
        ELSE [kind |-> "collapse", underflow |-> underflow,
              octants |-> [ClearChildren(octants, octant.children)
                             EXCEPT ![handle + 1] = BranchToLeaf(octants, octant)],
              leaf_count |-> reduced]

\* self.octants.iter().filter_map(|octant| octant.make_rgb24()).collect()
RECURSIVE Emission(_, _)
Emission(octants, i) ==
    IF i > Len(octants) THEN <<>> ELSE MakeRgb24(octants[i]) \o Emission(octants, i + 1)

---------------------------------------------------------------------------
(* main.rs: the command-line front end, with its own Color and median_cut *)

\* Ordering of two u8 (Ord::cmp), and Ordering::then
Cmp(a, b) == IF a < b THEN "Less" ELSE IF a > b THEN "Greater" ELSE "Equal"
Then(first, second) == IF first = "Equal" THEN second ELSE first

\* The fold of Color::max_channel: the b fields are folded over val.g.
RECURSIVE MainFoldMinMax(_, _, _)
MainFoldMinMax(colors, min, max) ==
    IF colors = <<>> THEN [min |-> min, max |-> max]
    ELSE LET val == Head(colors)
         IN  MainFoldMinMax(Tail(colors),
                 Rgb24(U8Min(ChR(min), ChR(val)), U8Min(ChG(min), ChG(val)), U8Min(ChB(min), ChG(val))),
                 Rgb24(U8Max(ChR(max), ChR(val)), U8Max(ChG(max), ChG(val)), U8Max(ChB(max), ChG(val))))

MainSliceMinMax(colors) ==
    MainFoldMinMax(colors, Rgb24(U8_MAX, U8_MAX, U8_MAX), Rgb24(U8_MIN, U8_MIN, U8_MIN))

\* max.c - min.c overflows u8 (only on an empty slice)
MainDeltaOverflows(colors) ==
    LET mm == MainSliceMinMax(colors)
    IN  \E n \in 1..3 : mm.max[n] < mm.min[n]

\* Color::max_channel
MaxChannel(colors) ==
    LET mm == MainSliceMinMax(colors)
        delta == Rgb24(U8WrappingSub(ChR(mm.max), ChR(mm.min)),
                       U8WrappingSub(ChG(mm.max), ChG(mm.min)),
                       U8WrappingSub(ChB(mm.max), ChB(mm.min)))
        ordering == Then(Cmp(ChR(delta), ChG(delta)), Cmp(ChG(delta), ChB(delta)))
    IN  IF ordering = "Greater" THEN [channel |-> "Red", delta |-> ChR(delta)]
        ELSE IF ordering = "Less" THEN [channel |-> "Blue", delta |-> ChB(delta)]
        ELSE [channel |-> "Green", delta |-> ChG(delta)]

\* Color::average: the same sums and rounding as Rgb24::average
MainAverage(colors) ==
    LET sum == FoldSum(colors, <<0, 0, 0>>)
        len == Len(colors)
    IN  Rgb24(RoundDiv(sum[1], len), RoundDiv(sum[2], len), RoundDiv(sum[3], len))

\* bucket.sort_by(|x, y| x.c.cmp(&y.c)): a stable sort on one channel
SortBy(colors, channel) ==
    LET n == ToUsize(channel) + 1
        RECURSIVE Insert(_, _)
        Insert(sorted, c) ==
            IF sorted = <<>> THEN << c >>
            ELSE IF sorted[Len(sorted)][n] <= c[n] THEN Append(sorted, c)
            ELSE Append(Insert(SubSeq(sorted, 1, Len(sorted) - 1), c), sorted[Len(sorted)])
        RECURSIVE Upto(_)
        Upto(i) == IF i = 0 THEN <<>> ELSE Insert(Upto(i - 1), colors[i])
    IN  Upto(Len(colors))

\* One iteration of the while loop of main.rs's median_cut; buckets holds
\* offsets.  overflow: max_channel was called on an empty range.
MainMedianCutIteration(colors, buckets) ==
    LET v == [j \in 1..(Len(buckets) - 1) |->
                 MaxChannel(Slice(colors, buckets[j], buckets[j + 1]))]
        max == MaxByDelta(v)
        start == buckets[max]
        end == buckets[max + 1]
        sorted == SortBy(Slice(colors, start, end), v[max].channel)
        mid == start + (end - start) \div 2
    IN  [overflow |-> \E j \in 1..(Len(buckets) - 1) :
                          MainDeltaOverflows(Slice(colors, buckets[j], buckets[j + 1])),
         colors |-> Slice(colors, 0, start) \o sorted \o Slice(colors, end, Len(colors)),
         buckets |-> SubSeq(buckets, 1, max) \o << mid >> \o SubSeq(buckets, max + 1, Len(buckets))]

\* main.rs's median_cut from one loop test on: the set of its possible
\* results, each a panic or a returned palette.
RECURSIVE MainMedianCutLoop(_, _, _)
MainMedianCutLoop(colors, buckets, palette_size) ==
    IF ~(Len(buckets) < palette_size)
      THEN { [panic |-> FALSE,
              palette |-> [j \in 1..(Len(buckets) - 1) |->
                              MainAverage(Slice(colors, buckets[j], buckets[j + 1]))]] }
    ELSE LET it == MainMedianCutIteration(colors, buckets)
         IN  (IF it.overflow THEN { [panic |-> TRUE, palette |-> <<>>] } ELSE {})
               \cup MainMedianCutLoop(it.colors, it.buckets, palette_size)

\* main.rs's median_cut
MainMedianCut(colors, palette_size) ==
    IF palette_size >= Len(colors)
      THEN { [panic |-> FALSE, palette |-> colors] }
    ELSE MainMedianCutLoop(colors, << 0, Len(colors) >>, palette_size)

\* What a path of the argument list leads to: a file image::open cannot
\* decode, or an image of one, four or five pixels.
Images ==
    { << <<0, 0, 0>> >>,
      << <<0, 0, 0>>, <<2, 3, 1>>, <<128, 1, 2>>, <<3, 130, 3>> >>,
      << <<1, 1, 0>>, <<1, 1, 0>>, <<1, 1, 0>>, <<1, 1, 0>>, <<1, 1, 0>> >> }
Files ==
    { [decodable |-> FALSE, pixels |-> <<>>] }
      \cup { [decodable |-> TRUE, pixels |-> img] : img \in Images }

\* img_to_colors: Err when image::open fails, else Ok of the pixels as colours
ImgToColors(path) ==
    IF path.decodable THEN [ok |-> TRUE, colors |-> path.pixels]
    ELSE [ok |-> FALSE, colors |-> <<>>]

\* The lines main writes to the standard output for one image: the header,
\* then one line per palette colour.
Header(i) == [image |-> i, color |-> <<>>]
ColorLines(i, colours) == [j \in 1..Len(colours) |-> [image |-> i, color |-> colours[j]]]

---------------------------------------------------------------------------
(* The calls, step by step *)

VARIABLES
    entry,       \* the public function that was called
    pc,          \* the function or loop control is in; at the end "done", "panic",
                 \* or "error" (main returned Err)
    method,      \* the Method solve was given
    input,       \* the colours the call was given
    size,        \* palette_size
    channel,     \* the channel radix_sort was given
    colors,      \* median_cut's colors / radix_sort's slice
    buckets,     \* median_cut's buckets
    split,       \* the 0-based bucket index the last loop iteration selected
    octants,     \* Octree.octants
    levels,      \* Octree.levels
    cursor,      \* colours added so far (build), handles visited so far (into_palette)
    leaf_count,  \* into_palette's leaf_count
    stopped,     \* into_palette left its loop by break
    palette,     \* the returned palette
    widest,      \* the pair max_channel_delta returned
    paths,       \* main's argument list
    file,        \* main: the paths gone through so far
    stdout,      \* main: the lines written to the standard output
    stderr       \* main: the paths reported on the standard error, by position

\* The variables of the front end, and those of the library calls
cli == << paths, file, stdout, stderr >>
lib == << method, input, channel, colors, buckets, split, octants, levels, cursor, leaf_count,
          stopped, palette, widest >>

vars == << entry, pc, method, input, size, channel, colors, buckets, split, octants, levels,
           cursor, leaf_count, stopped, palette, widest, paths, file, stdout, stderr >>

NoWidest == [channel |-> "Blue", delta |-> 0]

Idle ==
    /\ colors = <<>>
    /\ buckets = <<>>
    /\ split = 0
    /\ octants = <<>>
    /\ levels = <<>>
    /\ cursor = 0
    /\ leaf_count = 0
    /\ stopped = FALSE
    /\ palette = <<>>
    /\ widest = NoWidest
    /\ file = 0
    /\ stdout = <<>>
    /\ stderr = <<>>

\* A call of solve with 1..MaxLen colours (or a longer input of Nested) and a
\* size in 0..MaxK, or of
\* max_channel_delta or radix_sort on a slice, or a run of the front end on
\* 1..MaxFiles paths.  median_cut and octree are public too: called with a
\* size below the number of colours they start in the state solve dispatches
\* to, so only their calls with larger sizes are further initial states.
Init ==
    /\ Idle
    /\ \/ /\ entry = "solve"
          /\ method \in {"MedianCut", "Octree"}
          /\ size \in 0..MaxK
          /\ channel = "Blue"
          /\ input \in (Inputs \ { <<>> }) \cup Nested
          /\ paths = <<>>
       \/ /\ entry = "median_cut"
          /\ method = "MedianCut"
          /\ size \in 0..MaxK
          /\ channel = "Blue"
          /\ input \in { cs \in Inputs \ { <<>> } : size >= Len(cs) }
          /\ paths = <<>>
       \/ /\ entry = "octree"
          /\ method = "Octree"
          /\ size \in 0..MaxK
          /\ channel = "Blue"
          /\ input \in { cs \in Inputs \ { <<>> } : size >= Len(cs) }
          /\ paths = <<>>
       \/ /\ entry = "max_channel_delta"
          /\ method = "None"
          /\ size = 0
          /\ channel = "Blue"
          /\ input \in Inputs \ { <<>> }
          /\ paths = <<>>
       \/ /\ entry = "radix_sort"
          /\ method = "None"
          /\ size = 0
          /\ channel \in Channels
          /\ input \in Inputs
          /\ paths = <<>>
       \/ /\ entry = "main"
          /\ method = "None"
          /\ size \in 0..MaxK
          /\ channel = "Blue"
          /\ input = <<>>
          /\ paths \in SeqsUpTo(Files, MaxFiles) \ { <<>> }
    /\ pc = entry

\* A variant of Solve that returns early only for a size above the number of
\* colours: C3 must tell it from the code.
SolveStrictlyAbove ==
    /\ pc = "solve"
    /\ IF size > Len(input)
         THEN /\ palette' = input
              /\ pc' = "done"
         ELSE /\ palette' = palette
              /\ pc' = IF method = "MedianCut" THEN "median_cut" ELSE "octree"
    /\ UNCHANGED << entry, method, input, size, channel, colors, buckets, split, octants, levels,
                    cursor, leaf_count, stopped, widest >>
    /\ UNCHANGED cli

\* solve: the early return, or the dispatch on method
Solve ==
    /\ pc = "solve"
    /\ IF size >= Len(input)
         THEN /\ palette' = input
              /\ pc' = "done"
         ELSE /\ palette' = palette
              /\ pc' = IF method = "MedianCut" THEN "median_cut" ELSE "octree"
    /\ UNCHANGED << entry, method, input, size, channel, colors, buckets, split, octants, levels,
                    cursor, leaf_count, stopped, widest >>
    /\ UNCHANGED cli

\* median_cut up to its loop: the first bucket and the sentinel
MedianCutStart ==
    /\ pc = "median_cut"
    /\ colors' = input
    /\ buckets' = InitialBuckets(input)
    /\ pc' = "median_cut_loop"
    /\ UNCHANGED << entry, method, input, size, channel, split, octants, levels, cursor,
                    leaf_count, stopped, palette, widest >>
    /\ UNCHANGED cli

\* The ways one loop iteration can end: an index panic; on an overflowing
\* subtraction both a panic (overflow checks on) and the wrapped result.
IterationEnds(it) ==
    IF it.panic THEN {"panic"}
    ELSE IF it.overflow THEN {"panic", "median_cut_loop"}
    ELSE {"median_cut_loop"}

\* median_cut as a whole, from the buckets of one loop test on: the set of
\* its possible results, each a panic or a returned palette.
RECURSIVE MedianCutLoop(_, _, _)
MedianCutLoop(cs, bs, k) ==
    IF Len(bs) > k
      THEN { [panic |-> FALSE, palette |-> MedianCutEmission(cs, bs)] }
    ELSE LET it == MedianCutIteration(cs, bs)
             ends == IterationEnds(it)
         IN  (IF "panic" \in ends THEN { [panic |-> TRUE, palette |-> <<>>] } ELSE {})
               \cup (IF "median_cut_loop" \in ends
                       THEN MedianCutLoop(it.colors, it.buckets, k)
                       ELSE {})

MedianCut(cs, k) == MedianCutLoop(cs, InitialBuckets(cs), k)

\* One iteration of median_cut's while loop
MedianCutSplit ==
    /\ pc = "median_cut_loop"
    /\ Len(buckets) <= size
    /\ \E it \in { MedianCutIteration(colors, buckets) } :
           /\ pc' \in IterationEnds(it)
           /\ colors' = it.colors
           /\ buckets' = it.buckets
           /\ split' = it.i - 1
    /\ UNCHANGED << entry, method, input, size, channel, octants, levels, cursor, leaf_count,
                    stopped, palette, widest >>
    /\ UNCHANGED cli

\* median_cut after its loop: the averages
MedianCutEmit ==
    /\ pc = "median_cut_loop"
    /\ Len(buckets) > size
    /\ palette' = MedianCutEmission(colors, buckets)
    /\ pc' = "done"
    /\ UNCHANGED << entry, method, input, size, channel, colors, buckets, split, octants, levels,
                    cursor, leaf_count, stopped, widest >>
    /\ UNCHANGED cli

\* octree: Octree::new
OctreeNew ==
    /\ pc = "octree"
    /\ octants' = NewOctree.octants
    /\ levels' = NewOctree.levels
    /\ cursor' = 0
    /\ pc' = "build"
    /\ UNCHANGED << entry, method, input, size, channel, colors, buckets, split, leaf_count,
                    stopped, palette, widest >>
    /\ UNCHANGED cli

\* Octree::build: add_color for the next colour
BuildAddColor ==
    /\ pc = "build"
    /\ cursor < Len(input)
    /\ \E tree \in { AddColor([octants |-> octants, levels |-> levels], input[cursor + 1]) } :
           /\ octants' = tree.octants
           /\ levels' = tree.levels
    /\ cursor' = cursor + 1
    /\ UNCHANGED << entry, pc, method, input, size, channel, colors, buckets, split, leaf_count,
                    stopped, palette, widest >>
    /\ UNCHANGED cli

\* into_palette up to its loop: leaf_count is the length of the last level
IntoPaletteStart ==
    /\ pc = "build"
    /\ cursor = Len(input)
    /\ leaf_count' = Len(levels[MAX_LEVEL])
    /\ cursor' = 0
    /\ pc' = "reduce"
    /\ UNCHANGED << entry, method, input, size, channel, colors, buckets, split, octants, levels,
                    stopped, palette, widest >>
    /\ UNCHANGED cli

\* The ways one visit can end.
VisitEnds(v) ==
    (IF v.underflow THEN {"panic"} ELSE {})
      \cup (IF v.kind = "unreachable" THEN {"panic"} ELSE {"reduce"})

\* into_palette's loop body for the next handle of the reduction order
ReduceStep ==
    /\ pc = "reduce"
    /\ ~stopped
    /\ cursor < Len(ReductionOrder(levels))
    /\ \E v \in { ReduceVisit(octants, ReductionOrder(levels)[cursor + 1], leaf_count, size) } :
           /\ pc' \in VisitEnds(v)
           /\ octants' = v.octants
           /\ leaf_count' = v.leaf_count
           /\ stopped' = (v.kind = "break")
    /\ cursor' = cursor + 1
    /\ UNCHANGED << entry, method, input, size, channel, colors, buckets, split, levels,
                    palette, widest >>
    /\ UNCHANGED cli

\* into_palette after its loop: the averages of the leaves that hold colours
IntoPaletteEmit ==
    /\ pc = "reduce"
    /\ stopped \/ cursor = Len(ReductionOrder(levels))
    /\ palette' = Emission(octants, 1)
    /\ pc' = "done"
    /\ UNCHANGED << entry, method, input, size, channel, colors, buckets, split, octants, levels,
                    cursor, leaf_count, stopped, widest >>
    /\ UNCHANGED cli

\* A call of Rgb24::max_channel_delta on a non-empty slice
CallMaxChannelDelta ==
    /\ pc = "max_channel_delta"
    /\ widest' = MaxChannelDelta(input)
    /\ pc' = "done"
    /\ UNCHANGED << entry, method, input, size, channel, colors, buckets, split, octants, levels,
                    cursor, leaf_count, stopped, palette >>
    /\ UNCHANGED cli

\* A call of Rgb24::radix_sort
CallRadixSort ==
    /\ pc = "radix_sort"
    /\ colors' = RadixSort(input, channel)
    /\ pc' = "done"
    /\ UNCHANGED << entry, method, input, size, channel, buckets, split, octants, levels,
                    cursor, leaf_count, stopped, palette, widest >>
    /\ UNCHANGED cli

\* One pass of main's loop over the paths: the header, then either the
\* report of a decoding error and the return of Err, or the palette.
MainFile ==
    /\ pc = "main"
    /\ file < Len(paths)
    /\ \E img \in { ImgToColors(paths[file + 1]) } :
           IF ~img.ok
             THEN /\ stdout' = Append(stdout, Header(file + 1))
                  /\ stderr' = Append(stderr, file + 1)
                  /\ pc' = "error"
             ELSE \E run \in MainMedianCut(img.colors, size) :
                      /\ stdout' = Append(stdout, Header(file + 1))
                                      \o ColorLines(file + 1, run.palette)
                      /\ stderr' = stderr
                      /\ pc' = IF run.panic THEN "panic" ELSE "main"
    /\ file' = file + 1
    /\ UNCHANGED << entry, size, paths >>
    /\ UNCHANGED lib

\* main after its loop: Ok(())
MainReturn ==
    /\ pc = "main"
    /\ file = Len(paths)
    /\ pc' = "done"
    /\ UNCHANGED << entry, size >>
    /\ UNCHANGED cli
    /\ UNCHANGED lib

Next ==
    \/ Solve
    \/ MedianCutStart
    \/ MedianCutSplit
    \/ MedianCutEmit
    \/ OctreeNew
    \/ BuildAddColor
    \/ IntoPaletteStart
    \/ ReduceStep
    \/ IntoPaletteEmit
    \/ CallMaxChannelDelta
    \/ CallRadixSort
    \/ MainFile
    \/ MainReturn

Spec == Init /\ [][Next]_vars

---------------------------------------------------------------------------
(* Properties *)

Min2(a, b) == IF a <= b THEN a ELSE b

\* N, the number of input colours, and D, the number of distinct ones
N == Len(input)
D == Cardinality({ input[i] : i \in 1..Len(input) })

\* The distinct elements of a sequence in order of first appearance
FirstAppearances(seq) ==
    LET first == { i \in 1..Len(seq) : \A j \in 1..(i - 1) : seq[j] # seq[i] }
        RECURSIVE Pick(_)
        Pick(i) == IF i > Len(seq) THEN <<>>
                   ELSE (IF i \in first THEN << seq[i] >> ELSE <<>>) \o Pick(i + 1)
    IN  Pick(1)

\* The child of the octree root a colour falls under: the top bits of r, g, b
RootChild(c) ==
    (IF c[1] >= 128 THEN 4 ELSE 0) + (IF c[2] >= 128 THEN 2 ELSE 0) + (IF c[3] >= 128 THEN 1 ELSE 0)

RootChildren == FirstAppearances([i \in 1..Len(input) |-> RootChild(input[i])])

\* T, the number of occupied children of the root
T == Len(RootChildren)

Sum(seq, n) ==
    LET RECURSIVE Upto(_)
        Upto(i) == IF i = 0 THEN 0 ELSE seq[i][n] + Upto(i - 1)
    IN  Upto(Len(seq))

\* The per-channel floor of sum / count over a non-empty sequence of colours
FloorAverage(seq) ==
    << Sum(seq, 1) \div Len(seq), Sum(seq, 2) \div Len(seq), Sum(seq, 3) \div Len(seq) >>

Under(child) == SelectSeq(input, LAMBDA c : RootChild(c) = child)

\* One colour per occupied root child, in order of first appearance
RootChildPalette == [j \in 1..T |-> FloorAverage(Under(RootChildren[j]))]

\* The number of leaves the emission would output
LiveLeaves == Len(Emission(octants, 1))

\* solve, median_cut's body, the octree engine have returned
SolveDone == entry = "solve" /\ pc = "done"
MedianCutDone == pc = "done" /\ method = "MedianCut" /\ buckets # <<>>
OctreeDone == pc = "done" /\ method = "Octree" /\ octants # <<>>

\* C1 as stated: for either method, N >= 1 and K >= 1, the palette solve
\* returns has exactly min(K, N) colours.
C1_LengthIsMinOfSizeAndInput ==
    (SolveDone /\ N >= 1 /\ size >= 1) => Len(palette) = Min2(size, N)

\* C1 amended: the palette solve returns has exactly min(K, N) colours for
\* MedianCut and for K >= N; for Octree with K < N it has at least min(K, D)
\* and at most D colours, D the number of distinct input colours.
C1_PaletteLength ==
    (SolveDone /\ N >= 1 /\ size >= 1) =>
        IF method = "MedianCut" \/ size >= N
          THEN Len(palette) = Min2(size, N)
          ELSE Len(palette) >= Min2(size, D) /\ Len(palette) <= D

C1_Witness ==
    /\ SolveDone
    /\ size >= 2
    /\ size < N
    /\ method = "MedianCut"
    /\ Len(palette) = size

\* C2 as stated: for N >= 1 and K >= 1 solve with either method runs to
\* completion: no abort (index out of bounds, overflow, unreachable branch)
\* is reachable.
C2_SolveNeverAborts ==
    ~(entry = "solve" /\ N >= 1 /\ size >= 1 /\ pc = "panic")

\* C3: when K >= N, solve returns exactly the input, in input order, and
\* neither quantization engine has been entered.
C3_EarlyReturnIsInput ==
    (SolveDone /\ size >= N) =>
        /\ palette = input
        /\ colors = <<>>
        /\ buckets = <<>>
        /\ octants = <<>>
        /\ levels = <<>>

C3_Witness ==
    /\ SolveDone
    /\ N >= 2
    /\ size = N
    /\ palette = input
    /\ D >= 2

\* C4: for K >= 1 the octree engine returns at least min(K, D) colours, and
\* at no point of the reduction are there fewer than min(K, D) leaves that
\* would be emitted.
C4_AtLeastMinOfSizeAndDistinct ==
    /\ (OctreeDone /\ size >= 1) => Len(palette) >= Min2(size, D)
    /\ (pc = "reduce" /\ size >= 1) => LiveLeaves >= Min2(size, D)

C4_Witness ==
    /\ OctreeDone
    /\ size >= 2
    /\ D > size
    /\ Len(palette) = size

\* The permutations of 1..n, and a sequence rearranged by one
PermutationsOf(n) == { f \in [1..n -> 1..n] : \A i, j \in 1..n : f[i] = f[j] => i = j }
Permuted(seq, f) == [i \in 1..Len(seq) |-> seq[f[i]]]

\* No two colours of the sequence agree in any channel
DistinctInEveryChannel(seq) ==
    \A i, j \in 1..Len(seq) : i # j => \A n \in 1..3 : seq[i][n] # seq[j][n]

\* C5 as stated: for 1 <= K <= N, median_cut returns the same palette for
\* every permutation of the input (that it returns a palette for).
C5_PermutationInvariant ==
    (MedianCutDone /\ 1 <= size /\ size <= N) =>
        \A f \in PermutationsOf(N) :
            \A run \in MedianCut(Permuted(input, f), size) :
                ~run.panic => run.palette = palette

\* C5 amended: for 1 <= K <= N and an input no two colours of which agree in
\* any channel, median_cut returns the same palette for every permutation of
\* the input.
C5_PermutationInvariantWhenDistinct ==
    (MedianCutDone /\ 1 <= size /\ size <= N /\ DistinctInEveryChannel(input)) =>
        \A f \in PermutationsOf(N) :
            MedianCut(Permuted(input, f), size) = { [panic |-> FALSE, palette |-> palette] }

C5_Witness ==
    /\ MedianCutDone
    /\ N >= 3
    /\ size >= 2
    /\ size <= N
    /\ DistinctInEveryChannel(input)

\* C6 as stated: with K = 1 and N > 1 the octree engine returns exactly one
\* colour, the leaf that aggregates all input colours.
C6_SingleSuperLeaf ==
    (OctreeDone /\ size = 1 /\ N > 1) => palette = << FloorAverage(input) >>

\* C6 amended: with K = 1 and N > 1 the octree engine returns one colour per
\* occupied child of the root, each the aggregate of the input colours under
\* that child; it is a single colour, the aggregate of all input colours,
\* exactly when all input colours fall under one child of the root.
C6_OneLeafPerRootChild ==
    (OctreeDone /\ size = 1 /\ N > 1) =>
        /\ palette = RootChildPalette
        /\ Len(palette) = T
        /\ (T = 1 => palette = << FloorAverage(input) >>)

C6_Witness ==
    /\ OctreeDone
    /\ size = 1
    /\ N > 2
    /\ T = 2
    /\ Len(palette) = 2

\* C7: for 1 <= K <= T the octree engine collapses every branch but the
\* root and returns exactly T colours, one per occupied root child in order
\* of first appearance, each the per-channel floor of sum / count of the
\* input colours under that child.
C7_CollapsesToRootChildren ==
    (OctreeDone /\ 1 <= size /\ size <= T) =>
        /\ palette = RootChildPalette
        /\ octants[ROOT + 1].branch
        /\ \A h \in 1..(Len(octants) - 1) : ~octants[h + 1].branch

C7_Witness ==
    /\ OctreeDone
    /\ T >= 2
    /\ size = T
    /\ D > T
    /\ Len(palette) = T

\* C8: if D <= K the octree engine's palette is the distinct input colours,
\* each once, in order of first appearance.
C8_DistinctColoursKept ==
    (OctreeDone /\ D <= size) => palette = FirstAppearances(input)

C8_Witness ==
    /\ OctreeDone
    /\ D >= 2
    /\ D = size
    /\ N > D
    /\ Len(palette) = D

\* The range of channel n (1..3) over a non-empty sequence of colours
Range(seq, n) ==
    LET vals == { seq[i][n] : i \in 1..Len(seq) }
    IN  (CHOOSE hi \in vals : \A v \in vals : v <= hi)
          - (CHOOSE lo \in vals : \A v \in vals : lo <= v)

\* C9 as stated: on a non-empty slice max_channel_delta returns (ch, d) with
\* d the greatest of the three channel ranges and ch a channel of range d.
C9_GreatestRange ==
    (entry = "max_channel_delta" /\ pc = "done") =>
        /\ \A n \in 1..3 : Range(input, n) <= widest.delta
        /\ Range(input, ToUsize(widest.channel) + 1) = widest.delta

\* The colours of a sequence whose channel n (0..2) is v, in sequence order
WithKey(seq, n, v) == SelectSeq(seq, LAMBDA c : c[n + 1] = v)

\* C10: after radix_sort(colors, ch) the slice is a permutation of what it
\* was, non-decreasing in ch, and colours of equal ch keep their order.
C10_StableSort ==
    (entry = "radix_sort" /\ pc = "done") =>
        LET n == ToUsize(channel)
        IN  /\ Len(colors) = Len(input)
            /\ \A c \in Palette :
                  Cardinality({ i \in 1..Len(colors) : colors[i] = c })
                    = Cardinality({ i \in 1..Len(input) : input[i] = c })
            /\ \A i \in 1..(Len(colors) - 1) : colors[i][n + 1] <= colors[i + 1][n + 1]
            /\ \A v \in U8_MIN..U8_MAX : WithKey(colors, n, v) = WithKey(input, n, v)

C10_Witness ==
    /\ entry = "radix_sort"
    /\ pc = "done"
    /\ Len(input) >= 3
    /\ colors # input
    /\ \E i, j \in 1..Len(colors) :
          /\ i < j
          /\ colors[i] # colors[j]
          /\ colors[i][ToUsize(channel) + 1] = colors[j][ToUsize(channel) + 1]

\* The least and the greatest value of channel n (1..3) over a non-empty
\* sequence of colours
ChannelMin(seq, n) ==
    LET vals == { seq[i][n] : i \in 1..Len(seq) }
    IN  CHOOSE lo \in vals : \A v \in vals : lo <= v
ChannelMax(seq, n) ==
    LET vals == { seq[i][n] : i \in 1..Len(seq) }
    IN  CHOOSE hi \in vals : \A v \in vals : v <= hi

\* C11: for either method, N >= 1 and K >= 1, every colour of a palette solve
\* returns lies, in each channel, between the least and the greatest value
\* of that channel over the input.
C11_WithinHull ==
    (SolveDone /\ N >= 1 /\ size >= 1) =>
        \A j \in 1..Len(palette) : \A n \in 1..3 :
            /\ ChannelMin(input, n) <= palette[j][n]
            /\ palette[j][n] <= ChannelMax(input, n)

C11_Witness ==
    /\ SolveDone
    /\ size >= 1
    /\ size < N
    /\ palette # <<>>
    /\ \E j \in 1..Len(palette) :
          /\ \A i \in 1..N : input[i] # palette[j]
          /\ \E n \in 1..3 : ChannelMin(input, n) < palette[j][n]
                               /\ palette[j][n] < ChannelMax(input, n)

\* The images whose palette main has written: a header followed by at least
\* one colour line (or an image without pixels, whose palette is empty)
PalettePrinted(i) ==
    /\ \E l \in 1..Len(stdout) : stdout[l] = Header(i)
    /\ \/ paths[i].pixels = <<>>
       \/ \E l \in 1..Len(stdout) : stdout[l].image = i /\ stdout[l].color # <<>>
Reported(i) == \E l \in 1..Len(stderr) : stderr[l] = i

\* main has ended without a panic: it returned Ok (exit status 0) or Err
\* (a nonzero exit status)
MainEnded == entry = "main" /\ pc \in {"done", "error"}

\* C12 as stated: when a path of the argument list cannot be decoded, the
\* front end reports it, still prints the palette of every later decodable
\* path, and ends with success.
C12_ContinuesAfterDecodeFailure ==
    (MainEnded /\ \E i \in 1..Len(paths) : ~paths[i].decodable) =>
        /\ pc = "done"
        /\ \A i \in 1..Len(paths) :
              IF paths[i].decodable THEN PalettePrinted(i) ELSE Reported(i)

\* The engine is in the loop of into_palette, or past it
Reducing == pc = "reduce"
Reduced == method = "Octree" /\ octants # <<>> /\ pc \in {"reduce", "done"}

\* The handles into_palette goes through, and the level (0..7) a handle was
\* created at
Order == ReductionOrder(levels)
LevelOf(handle) ==
    CHOOSE l \in MIN_LEVEL..(MAX_LEVEL - 1) :
        \E i \in 1..Len(levels[l + 1]) : levels[l + 1][i] = handle

\* The visiting order is every branch but the root, once, deepest level
\* first and in creation order (ascending handle) within a level.
DeepestFirstInCreationOrder ==
    /\ \A a, b \in 1..Len(Order) : a < b =>
          \/ LevelOf(Order[a]) > LevelOf(Order[b])
          \/ LevelOf(Order[a]) = LevelOf(Order[b]) /\ Order[a] < Order[b]
    /\ { Order[a] : a \in 1..Len(Order) }
          = { h \in 1..(Len(octants) - 1) : LevelOf(h) < MAX_LEVEL - 1 }

\* A branch visited earlier is still a branch (it was skipped) and one
\* visited after it has been collapsed into a leaf.
CollapsedAfterSkip ==
    \E a, b \in 1..cursor :
        /\ a < b
        /\ octants[Order[a] + 1].branch
        /\ ~octants[Order[b] + 1].branch

\* C13 as stated: branches are visited deepest level first and in creation
\* order within a level, and once a visited branch is one whose collapse
\* would undershoot K, no branch later in the visiting order is collapsed.
C13_StopsAtFirstUndershoot ==
    Reduced => DeepestFirstInCreationOrder /\ ~CollapsedAfterSkip

\* C13 amended: branches are visited deepest level first and in creation
\* order within a level; a visited branch whose collapse would take the
\* tracked leaf count below K (leaf_count - child_count + 1 < K) is left as
\* it is and the reduction goes on with the next branch, and every other
\* visited branch is collapsed into a leaf.
C13_SkipsAndGoesOn ==
    /\ [](Reduced => DeepestFirstInCreationOrder)
    /\ [][ (Reducing /\ cursor' = cursor + 1) =>
              LET handle == Order[cursor + 1]
                  count == ChildCount(octants[handle + 1])
              IN  /\ pc' = "reduce"
                  /\ ~stopped'
                  /\ IF leaf_count - count + 1 < size
                        THEN /\ octants' = octants
                             /\ leaf_count' = leaf_count
                        ELSE /\ octants[handle + 1].branch
                             /\ ~octants'[handle + 1].branch
                             /\ leaf_count' = leaf_count - count + 1 ]_vars

C13_Witness ==
    /\ Reducing
    /\ size >= 2
    /\ CollapsedAfterSkip

\* C14 as stated: a step of the reduction never increases the number of live
\* leaves (leaves with count > 0), a collapse decreases it by exactly
\* child_count - 1, and after every step the tracked leaf_count is the
\* number of live leaves.
C14_CollapseTakesChildCountMinusOne ==
    [][ (Reducing /\ cursor' = cursor + 1) =>
          LET count == ChildCount(octants[Order[cursor + 1] + 1])
          IN  /\ LiveLeaves' <= LiveLeaves
              /\ (octants' # octants => LiveLeaves' = LiveLeaves - (count - 1))
              /\ leaf_count' = LiveLeaves' ]_vars

\* The lowest position (1-based) among the entries of greatest delta
LowestMaximal(bs) ==
    CHOOSE i \in 1..Len(bs) :
        /\ \A j \in 1..Len(bs) : bs[j].delta <= bs[i].delta
        /\ \A j \in 1..(i - 1) : bs[j].delta < bs[i].delta

\* C15 as stated: every iteration of median_cut's loop selects, among the
\* bucket entries of greatest cached delta, the one of lowest index.
C15_TiesGoToFirst ==
    [][ (pc = "median_cut_loop" /\ Len(buckets) <= size) =>
            split' = LowestMaximal(buckets) - 1 ]_vars

\* C16: in median_cut with 1 <= K <= N, before and after every completed
\* iteration of the loop and at the emission, the bucket offsets start at 0,
\* end at N (the sentinel) and increase strictly, so every range that is
\* averaged is non-empty; and an iteration that completes calls
\* max_channel_delta on non-empty halves only.
C16_OffsetsStrictlyIncreasing ==
    (method = "MedianCut" /\ buckets # <<>> /\ 1 <= size /\ size <= N
       /\ pc \in {"median_cut_loop", "done"}) =>
        /\ buckets[1].offset = 0
        /\ buckets[Len(buckets)].offset = N
        /\ \A j \in 1..(Len(buckets) - 1) : buckets[j].offset < buckets[j + 1].offset
        /\ (pc = "done" => Len(palette) = Len(buckets) - 1)
        /\ (pc = "median_cut_loop" /\ Len(buckets) <= size) =>
              LET it == MedianCutIteration(colors, buckets)
              IN  ~it.panic =>
                    /\ ~it.overflow
                    /\ it.buckets[it.i].offset < it.buckets[it.i + 1].offset
                    /\ it.buckets[it.i + 1].offset < it.buckets[it.i + 2].offset

C16_Witness ==
    /\ MedianCutDone
    /\ size >= 3
    /\ size <= N
    /\ Len(buckets) = size + 1
    /\ Len(palette) = size

\* The count and the channel sums of all the leaves of the arena together
LeafTotals ==
    LET RECURSIVE Upto(_)
        Upto(i) ==
            IF i = 0 THEN << 0, 0, 0, 0 >>
            ELSE LET rest == Upto(i - 1)
                     o == octants[i]
                 IN  IF o.branch THEN rest
                     ELSE << rest[1] + o.count, rest[2] + o.r, rest[3] + o.g, rest[4] + o.b >>
    IN  Upto(Len(octants))

\* The colours the tree holds: those added so far during build, all of them after
Added == IF pc = "build" THEN SubSeq(input, 1, cursor) ELSE input

\* C17: during and after build and after every step of the reduction, for
\* any K, the counts of all leaves of the arena add up to the number of
\* colours added and their r, g, b accumulators to the channel sums of those
\* colours; nothing is lost or counted twice, also when a branch is
\* collapsed over a child that is still a branch.
C17_Conservation ==
    (method = "Octree" /\ octants # <<>> /\ pc \in {"build", "reduce", "done"}) =>
        LeafTotals = << Len(Added), Sum(Added, 1), Sum(Added, 2), Sum(Added, 3) >>

\* After a collapse over a skipped branch: the branch's own leaves are still
\* live, so more leaves are live than into_palette has tracked, and the
\* overwritten child is a zero-count leaf.
C17_Witness ==
    /\ Reduced
    /\ cursor > 0
    /\ LiveLeaves > leaf_count
    /\ \E h \in 1..(Len(octants) - 1) :
          /\ LevelOf(h) < MAX_LEVEL - 1
          /\ ~octants[h + 1].branch
          /\ octants[h + 1].count = 0
    /\ LeafTotals[1] = N

\* C18: every branch but the root has at least one non-EMPTY child slot from
\* the add_color that created it on, so a branch that into_palette visits
\* is a branch of child_count >= 1 and the loop is never left through its
\* `count == 0` exit, for any input and any K.
C18_VisitedBranchHasChildren ==
    (method = "Octree" /\ octants # <<>> /\ pc \in {"build", "reduce", "done"}) =>
        /\ ~stopped
        /\ \A h \in 1..(Len(octants) - 1) :
              octants[h + 1].branch => ChildCount(octants[h + 1]) >= 1
        /\ (Reducing /\ cursor < Len(Order)) =>
              /\ octants[Order[cursor + 1] + 1].branch
              /\ ReduceVisit(octants, Order[cursor + 1], leaf_count, size).kind
                    \in {"skip", "collapse"}

\* The next branch to visit has no child that is a leaf holding colours
\* (its children are skipped branches), and still has child_count >= 1.
C18_Witness ==
    /\ Reducing
    /\ size >= 1
    /\ cursor < Len(Order)
    /\ LET octant == octants[Order[cursor + 1] + 1]
       IN  /\ octant.branch
           /\ ChildCount(octant) >= 1
           /\ \A i \in 1..MAX_SIZE :
                 octant.children[i] # EMPTY => octants[octant.children[i] + 1].branch
           /\ ReduceVisit(octants, Order[cursor + 1], leaf_count, size).kind = "collapse"

\* C19: for every input and every K >= 0, whenever into_palette is about to
\* evaluate leaf_count - count for a branch, the tracked leaf_count has not
\* wrapped and is at least that branch's child_count, so the subtraction
\* never underflows and the octree engine never aborts; this also after
\* skips and collapses have made leaf_count differ from the live leaves.
C19_NoUnderflow ==
    /\ (method = "Octree" /\ octants # <<>>) => pc # "panic"
    /\ Reducing =>
          /\ leaf_count >= 0
          /\ cursor < Len(Order) =>
                /\ leaf_count >= ChildCount(octants[Order[cursor + 1] + 1])
                /\ ~ReduceVisit(octants, Order[cursor + 1], leaf_count, size).underflow

\* A subtraction is about to be evaluated with a tracked leaf_count that is
\* below the number of live leaves (a branch was collapsed over a skipped
\* child before).
C19_Witness ==
    /\ Reducing
    /\ cursor > 0
    /\ cursor < Len(Order)
    /\ leaf_count < LiveLeaves
    /\ ChildCount(octants[Order[cursor + 1] + 1]) >= 1

====
